---- MODULE Spec2Model ----
(***************************************************************************)
(* Model of the Automated-EDA pipeline: the AutomatedEDA object of         *)
(* src/src/main_eda.py (load, metric stages, outlier detection, chart and  *)
(* report generation, run_full_analysis) and the command-line entry point  *)
(* of src/automated_eda.py.                                                *)
(*                                                                         *)
(* Values that are real numbers in the program (percentages, quantiles)    *)
(* are kept exact as integer numerators over a stated denominator.         *)
(***************************************************************************)
EXTENDS Integers, Sequences, FiniteSets, TLC

(***************************************************************************)
(* Bounds of the model.                                                    *)
(***************************************************************************)
MaxCols == 2
MaxCells == 4
MaxApiCells == 1
MaxApiCalls == 3
MaxSeriesLen == 12
MaxRerunClock == 8

(***************************************************************************)
(* Cells of a CSV file.  A cell is empty (null), an integer literal or a   *)
(* text token; text tokens are numbered.                                   *)
(***************************************************************************)
Null == [kind |-> "null", val |-> 0]
Num(n) == [kind |-> "num", val |-> n]
Str(i) == [kind |-> "str", val |-> i]
Cells == {Null, Num(1), Num(2), Str(1)}
RawNames == {"a", "b"}

None == [kind |-> "None"]

\* Sequences over S of length lo..hi.
SeqsOf(S, lo, hi) == UNION {[1..n -> S] : n \in lo..hi}

\* The CSV files the model draws its input from: a path with no file, a file
\* that cannot be parsed (no header line at all, or a data row with more
\* fields than the header), or a header of 1..MaxCols names (the first one
\* "a": names are arbitrary labels) followed by rows of as many cells, at
\* most MaxCells cells in all.
Unparseable == {[kind |-> k, header |-> <<>>, rows |-> <<>>] : k \in {"missing", "empty", "malformed"}}
Headers == {h \in SeqsOf(RawNames, 1, MaxCols) : h[1] = "a"}
TableFiles == UNION {{[kind |-> "table", header |-> h, rows |-> r] : r \in SeqsOf([1..Len(h) -> Cells], 0, MaxCells \div Len(h))} : h \in Headers}
Files == Unparseable \cup TableFiles

(***************************************************************************)
(* pandas.read_csv as load_data uses it.                                   *)
(***************************************************************************)
\* Number of positions j < i of header h holding the same name as h[i].
EarlierSame(h, i) == Cardinality({j \in 1..(i-1) : h[j] = h[i]})

\* read_csv renames a repeated header name "a" to "a.1", "a.2", ...: a column
\* label is the raw name with the number of earlier occurrences.
MangleDupeCols(h) == [i \in 1..Len(h) |-> <<h[i], EarlierSame(h, i)>>]

\* The i-th column of the rows r, top to bottom.
ColumnCells(r, i) == [k \in 1..Len(r) |-> r[k][i]]

\* dtype inference: no rows -> object; any text -> object; integers without
\* nulls -> int64; nulls (also a column of nulls only) -> float64.
InferDtype(col) ==
    IF Len(col) = 0 THEN "object"
    ELSE IF \E k \in 1..Len(col) : col[k].kind = "str" THEN "object"
    ELSE IF \E k \in 1..Len(col) : col[k].kind = "null" THEN "float64"
    ELSE "int64"

\* The DataFrame read_csv builds from a parseable file: the column labels in
\* file order, the dtype of each, the rows (row id k is position k, 1-based
\* here, 0-based in pandas).
ReadCsv(f) ==
    [kind |-> "DataFrame",
     columns |-> MangleDupeCols(f.header),
     dtypes |-> [i \in 1..Len(f.header) |-> InferDtype(ColumnCells(f.rows, i))],
     rows |-> f.rows]

ReadCsvRaises(f) == f.kind # "table"

(***************************************************************************)
(* DataFrame and Series helpers.                                           *)
(***************************************************************************)
RECURSIVE SumSeq(_)
SumSeq(s) == IF Len(s) = 0 THEN 0 ELSE s[1] + SumSeq(Tail(s))

Range(s) == {s[i] : i \in 1..Len(s)}

NRows(df) == Len(df.rows)
NCols(df) == Len(df.columns)

\* A rational n/d kept exact; d = 0 stands for the nan or inf numpy yields.
Ratio(n, d) == [num |-> n, den |-> d]

\* Series.to_dict(): label -> value; of equal labels the last one wins.
ToDict(labels, values) ==
    [l \in Range(labels) |-> values[CHOOSE i \in 1..Len(labels) : labels[i] = l /\ \A j \in (i+1)..Len(labels) : labels[j] # l]]

\* df.isnull().sum(): the null count of each column, in column order.
IsnullSum(df) ==
    [i \in 1..NCols(df) |-> Cardinality({k \in 1..NRows(df) : df.rows[k][i].kind = "null"})]

\* df.select_dtypes(include=[np.number]) / include=['object'] /
\* include=['datetime']: the positions of the selected columns.
NumericCols(df) == {i \in 1..NCols(df) : df.dtypes[i] \in {"int64", "float64"}}
ObjectCols(df) == {i \in 1..NCols(df) : df.dtypes[i] = "object"}
DatetimeCols(df) == {i \in 1..NCols(df) : df.dtypes[i] = "datetime64"}

\* df.duplicated().sum(): rows equal (null = null) to an earlier row.
DuplicatedSum(df) ==
    Cardinality({k \in 1..NRows(df) : \E j \in 1..(k-1) : df.rows[j] = df.rows[k]})

\* df[col].nunique(): distinct non-null values of column i.
Nunique(df, i) ==
    Cardinality({df.rows[k][i] : k \in {m \in 1..NRows(df) : df.rows[m][i].kind # "null"}})

(***************************************************************************)
(* analyze_basic_info: the three sections it computes.                     *)
(***************************************************************************)
\* BasicStats counting the rows that hold a null instead of the null cells.
BasicStats_null_rows(df) ==
    [total_rows |-> NRows(df),
     total_columns |-> NCols(df),
     numeric_columns |-> Cardinality(NumericCols(df)),
     categorical_columns |-> Cardinality(ObjectCols(df)),
     datetime_columns |-> Cardinality(DatetimeCols(df)),
     total_missing_values |-> Cardinality({k \in 1..NRows(df) : \E i \in 1..NCols(df) : df.rows[k][i].kind = "null"}),
     missing_percentage |-> Ratio(SumSeq(IsnullSum(df)) * 100, NRows(df) * NCols(df)),
     duplicate_rows |-> DuplicatedSum(df)]

BasicStats(df) ==
    [total_rows |-> NRows(df),
     total_columns |-> NCols(df),
     numeric_columns |-> Cardinality(NumericCols(df)),
     categorical_columns |-> Cardinality(ObjectCols(df)),
     datetime_columns |-> Cardinality(DatetimeCols(df)),
     total_missing_values |-> SumSeq(IsnullSum(df)),
     missing_percentage |-> Ratio(SumSeq(IsnullSum(df)) * 100, NRows(df) * NCols(df)),
     duplicate_rows |-> DuplicatedSum(df)]

MissingData(df) ==
    [by_column |-> ToDict(df.columns, IsnullSum(df)),
     by_percentage |-> ToDict(df.columns, [i \in 1..NCols(df) |-> Ratio(IsnullSum(df)[i] * 100, NRows(df))])]

UniqueValues(df) ==
    ToDict(df.columns, [i \in 1..NCols(df) |-> [count |-> Nunique(df, i), percentage |-> Ratio(Nunique(df, i) * 100, NRows(df))]])

\* nunique() is a Python int, so dividing it by a row count of 0 raises
\* (the numpy and pandas divisions before it yield nan instead).
BasicInfoRaises(df) == NCols(df) > 0 /\ NRows(df) = 0

(***************************************************************************)
(* analyze_descriptive_statistics.                                         *)
(***************************************************************************)
\* Row positions of the non-null cells of column i, and df[col].dropna():
\* their values in row order.
NonNullRows(df, i) == {k \in 1..NRows(df) : df.rows[k][i].kind # "null"}

RECURSIVE DropnaFrom(_, _, _)
DropnaFrom(df, i, k) ==
    IF k > NRows(df) THEN <<>>
    ELSE IF df.rows[k][i].kind = "null" THEN DropnaFrom(df, i, k + 1)
    ELSE <<df.rows[k][i].val>> \o DropnaFrom(df, i, k + 1)

Dropna(df, i) == DropnaFrom(df, i, 1)

\* The values of a sequence in ascending order.
SortValues(s) ==
    LET rank(k) == 1 + Cardinality({j \in 1..Len(s) : s[j] < s[k] \/ (s[j] = s[k] /\ j < k)})
    IN [p \in 1..Len(s) |-> s[CHOOSE k \in 1..Len(s) : rank(k) = p]]

\* The square root of a ratio, kept exact by its radicand (nan when the
\* radicand is).
Sqrt(r) == [sqrt_of |-> r]

\* df[col].var(): the sample variance (n*Q - S^2) / (n*(n-1)) of the values,
\* nan with fewer than two of them.
SampleVariance(v) ==
    LET n == Len(v)
        S == SumSeq(v)
        Q == SumSeq([k \in 1..n |-> v[k] * v[k]])
    IN Ratio(n * Q - S * S, n * (n - 1))

\* df[col].mode().iloc[0]: the smallest of the most frequent values, np.nan
\* on a column without values.
Mode(v) ==
    LET cnt(x) == Cardinality({k \in 1..Len(v) : v[k] = x})
        top == {x \in Range(v) : \A y \in Range(v) : cnt(y) <= cnt(x)}
    IN IF Len(v) = 0 THEN Ratio(0, 0) ELSE Ratio(CHOOSE x \in top : \A y \in top : x <= y, 1)

\* One entry of numeric_statistics: count, mean, mode, std, min, max and
\* variance (nan where pandas gives nan); median, the quartiles, skewness and
\* kurtosis of the entry are not represented.
NumericStats(df, i) ==
    LET v == SortValues(Dropna(df, i))
    IN [count |-> Len(v),
        mean |-> Ratio(SumSeq(v), Len(v)),
        mode |-> Mode(v),
        std |-> Sqrt(SampleVariance(v)),
        min |-> IF Len(v) = 0 THEN Ratio(0, 0) ELSE Ratio(v[1], 1),
        max |-> IF Len(v) = 0 THEN Ratio(0, 0) ELSE Ratio(v[Len(v)], 1),
        variance |-> SampleVariance(v)]

\* value_counts(sort=False): the distinct non-null values with their counts
\* in order of first appearance.
ValueCounts_unsorted(df, i) ==
    LET vals == {df.rows[k][i] : k \in NonNullRows(df, i)}
        cnt(v) == Cardinality({k \in 1..NRows(df) : df.rows[k][i] = v})
        first(v) == CHOOSE k \in 1..NRows(df) : df.rows[k][i] = v /\ \A j \in 1..(k-1) : df.rows[j][i] # v
        rank(v) == 1 + Cardinality({w \in vals : first(w) < first(v)})
    IN [p \in 1..Cardinality(vals) |-> LET v == CHOOSE w \in vals : rank(w) = p IN [value |-> v, count |-> cnt(v)]]

\* df[col].value_counts(): the distinct non-null values with their counts,
\* most frequent first, equal counts in order of first appearance.
ValueCounts(df, i) ==
    LET vals == {df.rows[k][i] : k \in NonNullRows(df, i)}
        cnt(v) == Cardinality({k \in 1..NRows(df) : df.rows[k][i] = v})
        first(v) == CHOOSE k \in 1..NRows(df) : df.rows[k][i] = v /\ \A j \in 1..(k-1) : df.rows[j][i] # v
        rank(v) == 1 + Cardinality({w \in vals : cnt(w) > cnt(v) \/ (cnt(w) = cnt(v) /\ first(w) < first(v))})
    IN [p \in 1..Cardinality(vals) |-> LET v == CHOOSE w \in vals : rank(w) = p IN [value |-> v, count |-> cnt(v)]]

\* The first n entries of a sequence (value_counts.head() keeps 5).
HeadN(s, n) == [p \in 1..(IF Len(s) < n THEN Len(s) ELSE n) |-> s[p]]

CategoricalStats(df, i) ==
    LET vc == ValueCounts(df, i)
    IN [unique_count |-> Nunique(df, i),
        most_frequent |-> IF Len(vc) > 0 THEN vc[1].value ELSE Null,
        most_frequent_count |-> IF Len(vc) > 0 THEN vc[1].count ELSE 0,
        least_frequent |-> IF Len(vc) > 0 THEN vc[Len(vc)].value ELSE Null,
        least_frequent_count |-> IF Len(vc) > 0 THEN vc[Len(vc)].count ELSE 0,
        top_5_values |-> HeadN(vc, 5)]

\* The position of the column labelled l, and the labels of the columns at
\* the positions in cols.
ColumnAt(df, l) == CHOOSE i \in 1..NCols(df) : df.columns[i] = l
Labels(df, cols) == {df.columns[i] : i \in cols}

NumericStatistics(df) == [l \in Labels(df, NumericCols(df)) |-> NumericStats(df, ColumnAt(df, l))]
CategoricalStatistics(df) == [l \in Labels(df, ObjectCols(df)) |-> CategoricalStats(df, ColumnAt(df, l))]

(***************************************************************************)
(* detect_outliers.                                                        *)
(***************************************************************************)
\* The ascending sequence of the members of a set of row positions.
RowSeq(S) == [p \in 1..Cardinality(S) |-> CHOOSE k \in S : Cardinality({j \in S : j < k}) = p - 1]

\* 4 * the q-th quartile (q = 1 or 3) of the ascending values v, by linear
\* interpolation between the two nearest ranks.
Quantile4(v, q) ==
    LET h == q * (Len(v) - 1)
        k == h \div 4
        r == h % 4
    IN IF r = 0 THEN 4 * v[k + 1] ELSE (4 - r) * v[k + 1] + r * v[k + 2]

\* The IQR rule flagging a value on a bound as well.
IqrOutliers_inclusive(df, i) ==
    LET v == SortValues(Dropna(df, i))
        Q1 == Quantile4(v, 1)
        Q3 == Quantile4(v, 3)
        lower_bound == 5 * Q1 - 3 * Q3
        upper_bound == 5 * Q3 - 3 * Q1
    IN IF Len(v) = 0 THEN <<>>
       ELSE RowSeq({k \in NonNullRows(df, i) : 8 * df.rows[k][i].val <= lower_bound \/ 8 * df.rows[k][i].val >= upper_bound})

\* IQR rule: the rows of column i whose value is below Q1 - 1.5 IQR or above
\* Q3 + 1.5 IQR (both sides scaled by 8).  Without values the quartiles are
\* nan and nothing compares.
IqrOutliers(df, i) ==
    LET v == SortValues(Dropna(df, i))
        Q1 == Quantile4(v, 1)
        Q3 == Quantile4(v, 3)
        lower_bound == 5 * Q1 - 3 * Q3
        upper_bound == 5 * Q3 - 3 * Q1
    IN IF Len(v) = 0 THEN <<>>
       ELSE RowSeq({k \in NonNullRows(df, i) : 8 * df.rows[k][i].val < lower_bound \/ 8 * df.rows[k][i].val > upper_bound})

\* The z-score rule with the positions counted from 1 where data.iloc
\* counts from 0.
ZscoreOutliers_shifted(df, i) ==
    LET x == Dropna(df, i)
        n == Len(x)
        S == SumSeq(x)
        Q == SumSeq([p \in 1..n |-> x[p] * x[p]])
        outlier_indices == {p \in 1..n : (n * x[p] - S) * (n * x[p] - S) > 9 * (n * Q - S * S)}
    IN RowSeq({p + 1 : p \in outlier_indices})

\* The z-score rule taking every value that is not within 3 standard
\* deviations, an undefined z-score (std 0) included.
ZscoreOutliers_undefined(df, i) ==
    LET x == Dropna(df, i)
        n == Len(x)
        S == SumSeq(x)
        Q == SumSeq([p \in 1..n |-> x[p] * x[p]])
        outlier_indices == {p \in 1..n : n * Q - S * S = 0 \/ (n * x[p] - S) * (n * x[p] - S) > 9 * (n * Q - S * S)}
    IN RowSeq(outlier_indices)

\* z-score rule: |x - mean| / std > 3 over the non-null values (population
\* std), i.e. (n x - S)^2 > 9 (n Q - S^2); the positions found in the
\* null-dropped values are then used as row positions of the whole table
\* (data.iloc).
ZscoreOutliers(df, i) ==
    LET x == Dropna(df, i)
        n == Len(x)
        S == SumSeq(x)
        Q == SumSeq([p \in 1..n |-> x[p] * x[p]])
        outlier_indices == {p \in 1..n : (n * x[p] - S) * (n * x[p] - S) > 9 * (n * Q - S * S)}
    IN RowSeq(outlier_indices)

\* The loop over (method, column): pairs is what is left to process,
\* outliers the local variable (unbound until a known method assigned it; an
\* unknown method leaves it as it was), acc the dict
\* built so far.
Unbound == [bound |-> FALSE, ids |-> <<>>]
Bound(ids) == [bound |-> TRUE, ids |-> ids]

OutlierRecord(df, ids) ==
    [count |-> Len(ids), percentage |-> Ratio(Len(ids) * 100, NRows(df)), indices |-> ids]

RECURSIVE DetectLoop(_, _, _, _)
DetectLoop(df, pairs, outliers, acc) ==
    IF Len(pairs) = 0 THEN [raised |-> "none", results |-> acc]
    ELSE LET method == pairs[1][1]
             i == pairs[1][2]
             now == IF method = "iqr" THEN Bound(IqrOutliers(df, i))
                    ELSE IF method = "zscore" THEN Bound(ZscoreOutliers(df, i))
                    ELSE outliers
             put == [l \in DOMAIN acc[method] \cup {df.columns[i]} |->
                        IF l = df.columns[i] THEN OutlierRecord(df, now.ids) ELSE acc[method][l]]
         IN IF ~now.bound THEN [raised |-> "UnboundLocalError", results |-> acc]
            ELSE IF NRows(df) = 0 THEN [raised |-> "ZeroDivisionError", results |-> acc]
            ELSE DetectLoop(df, Tail(pairs), now, [acc EXCEPT ![method] = put])

\* The (method, column) pairs in loop order.
RECURSIVE LoopPairs(_, _)
LoopPairs(methods, cols) ==
    IF Len(methods) = 0 THEN <<>>
    ELSE [p \in 1..Len(cols) |-> <<methods[1], cols[p]>>] \o LoopPairs(Tail(methods), cols)

EmptyDict == [l \in {} |-> 0]

\* The outcome of detect_outliers(methods) on df: the dict it stores, whether
\* it got as far as storing it, and the exception it raises (the log line
\* after the store reads outlier_results['iqr'] once per numeric column).
DetectOutliers(df, methods) ==
    LET cols == RowSeq(NumericCols(df))
        loop == DetectLoop(df, LoopPairs(methods, cols), Unbound, [m \in Range(methods) |-> EmptyDict])
    IN IF loop.raised # "none" THEN [raised |-> loop.raised, stored |-> FALSE, results |-> loop.results]
       ELSE IF "iqr" \notin Range(methods) /\ Len(cols) > 0 THEN [raised |-> "KeyError", stored |-> TRUE, results |-> loop.results]
       ELSE [raised |-> "none", stored |-> TRUE, results |-> loop.results]

DefaultMethods == <<"iqr", "zscore">>

(***************************************************************************)
(* generate_visualizations: the chart files EDAVisualizer writes, in       *)
(* order.  Drawing is external; only the file names are modelled.          *)
(***************************************************************************)
NoCol == <<"", 0>>
Plot(name, col) == <<name, col>>

PerColumn(df, cols, name) == [p \in 1..Len(cols) |-> Plot(name, df.columns[cols[p]])]

PlotFiles(df) ==
    LET num == RowSeq(NumericCols(df))
        cat == RowSeq({i \in ObjectCols(df) : Nunique(df, i) <= 20})
    IN <<Plot("data_overview", NoCol), Plot("missing_data_matrix", NoCol), Plot("missing_data_bar", NoCol)>>
       \o (IF SumSeq(IsnullSum(df)) > 0 THEN <<Plot("missing_data_heatmap", NoCol)>> ELSE <<>>)
       \o PerColumn(df, num, "distribution")
       \o (IF Len(num) > 1 THEN <<Plot("all_distributions", NoCol)>> ELSE <<>>)
       \o PerColumn(df, cat, "countplot")
       \o (IF Len(num) >= 2 THEN <<Plot("correlation_heatmap", NoCol), Plot("pairplot", NoCol)>> ELSE <<>>)
       \o PerColumn(df, num, "outliers")

(***************************************************************************)
(* State.                                                                  *)
(*   args              the command line: whether --file ends in .csv, and  *)
(*                     --no-profiling                                      *)
(*   csv               the file at csv_path                                *)
(*   enable_profiling, data, analysis_results   the object's fields        *)
(*   disk              the output directory: eda_report.html and           *)
(*                     eda_summary.json (absent, partial, complete), the   *)
(*                     chart files, the two profiling reports, the key     *)
(*                     findings of the HTML and the content of the JSON    *)
(*   outcome           how the last method call ended                      *)
(*   profiling_log     what generate_profiling_reports logged per generator*)
(*   pc                position in main / run_full_analysis                *)
(*   calls             the stage methods run_full_analysis has called      *)
(*   result            what run_full_analysis returned                     *)
(*   exit_code, completion   main's exit status and its "EDA Complete"     *)
(*   clock             the time, in method calls made so far               *)
(***************************************************************************)
VARIABLES args, csv, enable_profiling, data, analysis_results, disk, outcome, profiling_log, pc, calls, result, exit_code, completion, clock

vars == <<args, csv, enable_profiling, data, analysis_results, disk, outcome, profiling_log, pc, calls, result, exit_code, completion, clock>>

objvars == <<data, analysis_results, disk, outcome, profiling_log, clock>>
mainvars == <<exit_code, completion>>
inputs == <<args, csv, enable_profiling>>

SectionNames == {"basic_info", "basic_stats", "missing_data", "unique_values", "numeric_statistics", "categorical_statistics", "outliers", "visualizations"}

\* analysis_results[section] = value.
Put(ar, section, value) ==
    [s \in DOMAIN ar \cup {section} |-> IF s = section THEN value ELSE ar[s]]

Returned(op, ret) == [op |-> op, raised |-> "none", ret |-> ret]
Raised(op, exc) == [op |-> op, raised |-> exc, ret |-> "none"]

\* findings is the key-findings list of eda_report.html, summary the content
\* of eda_summary.json.
NoSummary == [type |-> "dict", items |-> <<>>]
EmptyDisk == [html |-> "absent", json |-> "absent", plots |-> {}, ydata |-> FALSE, sweetviz |-> FALSE, findings |-> <<>>, summary |-> NoSummary]
NoLog == [ydata |-> "none", sweetviz |-> "none"]

\* AutomatedEDA.__init__ on a fresh output directory.
Constructed ==
    /\ data = None
    /\ analysis_results = EmptyDict
    /\ disk = EmptyDisk
    /\ outcome = Returned("__init__", "None")
    /\ profiling_log = NoLog
    /\ clock = 0

(***************************************************************************)
(* The methods of AutomatedEDA.  Each is the whole method: what it assigns *)
(* and how it ends (outcome).                                              *)
(***************************************************************************)
\* The basic_info section (file_path and memory_usage, a constant string and
\* a byte count, are left out).
BasicInfo(df, now) ==
    [shape |-> <<NRows(df), NCols(df)>>,
     columns |-> df.columns,
     data_types |-> ToDict(df.columns, df.dtypes),
     load_timestamp |-> now]

\* load_data storing basic_info before it reads the file.
load_data_info_first ==
    IF ReadCsvRaises(csv)
    THEN /\ outcome' = Returned("load_data", "False")
         /\ analysis_results' = Put(analysis_results, "basic_info", [load_timestamp |-> clock])
         /\ clock' = clock + 1
         /\ UNCHANGED <<data, disk, profiling_log>>
    ELSE /\ data' = ReadCsv(csv)
         /\ analysis_results' = Put(analysis_results, "basic_info", BasicInfo(ReadCsv(csv), clock))
         /\ outcome' = Returned("load_data", "True")
         /\ clock' = clock + 1
         /\ UNCHANGED <<disk, profiling_log>>

\* load_data: read_csv raising is caught and reported as False, before any
\* assignment.
load_data ==
    IF ReadCsvRaises(csv)
    THEN /\ outcome' = Returned("load_data", "False")
         /\ clock' = clock + 1
         /\ UNCHANGED <<data, analysis_results, disk, profiling_log>>
    ELSE /\ data' = ReadCsv(csv)
         /\ analysis_results' = Put(analysis_results, "basic_info", BasicInfo(ReadCsv(csv), clock))
         /\ outcome' = Returned("load_data", "True")
         /\ clock' = clock + 1
         /\ UNCHANGED <<disk, profiling_log>>

\* analyze_basic_info without its check that a table is loaded: len(None)
\* raises.
analyze_basic_info_unguarded ==
    /\ IF data = None
       THEN /\ outcome' = Raised("analyze_basic_info", "TypeError")
            /\ UNCHANGED analysis_results
       ELSE IF BasicInfoRaises(data)
       THEN /\ outcome' = Raised("analyze_basic_info", "ZeroDivisionError")
            /\ UNCHANGED analysis_results
       ELSE /\ analysis_results' = Put(Put(Put(analysis_results, "basic_stats", BasicStats(data)), "missing_data", MissingData(data)), "unique_values", UniqueValues(data))
            /\ outcome' = Returned("analyze_basic_info", "None")
    /\ clock' = clock + 1
    /\ UNCHANGED <<data, disk, profiling_log>>

analyze_basic_info ==
    /\ IF data = None
       THEN /\ outcome' = Returned("analyze_basic_info", "None")
            /\ UNCHANGED analysis_results
       ELSE IF BasicInfoRaises(data)
       THEN /\ outcome' = Raised("analyze_basic_info", "ZeroDivisionError")
            /\ UNCHANGED analysis_results
       ELSE /\ analysis_results' = Put(Put(Put(analysis_results, "basic_stats", BasicStats(data)), "missing_data", MissingData(data)), "unique_values", UniqueValues(data))
            /\ outcome' = Returned("analyze_basic_info", "None")
    /\ clock' = clock + 1
    /\ UNCHANGED <<data, disk, profiling_log>>

\* analyze_descriptive_statistics starting analysis_results afresh.
analyze_descriptive_statistics_reset ==
    /\ IF data = None
       THEN /\ outcome' = Raised("analyze_descriptive_statistics", "AttributeError")
            /\ UNCHANGED analysis_results
       ELSE /\ analysis_results' = Put(Put(EmptyDict, "numeric_statistics", NumericStatistics(data)), "categorical_statistics", CategoricalStatistics(data))
            /\ outcome' = Returned("analyze_descriptive_statistics", "None")
    /\ clock' = clock + 1
    /\ UNCHANGED <<data, disk, profiling_log>>

analyze_descriptive_statistics ==
    /\ IF data = None
       THEN /\ outcome' = Raised("analyze_descriptive_statistics", "AttributeError")
            /\ UNCHANGED analysis_results
       ELSE /\ analysis_results' = Put(Put(analysis_results, "numeric_statistics", NumericStatistics(data)), "categorical_statistics", CategoricalStatistics(data))
            /\ outcome' = Returned("analyze_descriptive_statistics", "None")
    /\ clock' = clock + 1
    /\ UNCHANGED <<data, disk, profiling_log>>

\* The rows of df without those holding a null (df.dropna()).
RECURSIVE DropNullRows(_)
DropNullRows(rows) ==
    IF Len(rows) = 0 THEN <<>>
    ELSE IF \E i \in 1..Len(rows[1]) : rows[1][i].kind = "null" THEN DropNullRows(Tail(rows))
    ELSE <<rows[1]>> \o DropNullRows(Tail(rows))

\* detect_outliers dropping the rows with nulls from the table first.
detect_outliers_dropna(methods) ==
    /\ IF data = None
       THEN /\ outcome' = Raised("detect_outliers", "AttributeError")
            /\ UNCHANGED <<analysis_results, data>>
       ELSE LET r == DetectOutliers(data, methods)
            IN /\ analysis_results' = IF r.stored THEN Put(analysis_results, "outliers", r.results) ELSE analysis_results
               /\ outcome' = IF r.raised = "none" THEN Returned("detect_outliers", "None") ELSE Raised("detect_outliers", r.raised)
               /\ data' = [data EXCEPT !.rows = DropNullRows(@)]
    /\ clock' = clock + 1
    /\ UNCHANGED <<disk, profiling_log>>

detect_outliers(methods) ==
    /\ IF data = None
       THEN /\ outcome' = Raised("detect_outliers", "AttributeError")
            /\ UNCHANGED analysis_results
       ELSE LET r == DetectOutliers(data, methods)
            IN /\ analysis_results' = IF r.stored THEN Put(analysis_results, "outliers", r.results) ELSE analysis_results
               /\ outcome' = IF r.raised = "none" THEN Returned("detect_outliers", "None") ELSE Raised("detect_outliers", r.raised)
    /\ clock' = clock + 1
    /\ UNCHANGED <<data, disk, profiling_log>>

\* generate_visualizations with the chart files named after the time they
\* are drawn at.
generate_visualizations_stamped ==
    LET stamped == [p \in 1..Len(PlotFiles(data)) |-> Plot(PlotFiles(data)[p][1], <<"", clock>>)]
    IN /\ IF data = None
          THEN /\ outcome' = Raised("generate_visualizations", "AttributeError")
               /\ UNCHANGED <<analysis_results, disk>>
          ELSE \/ /\ disk' = [disk EXCEPT !.plots = @ \cup Range(stamped)]
                  /\ analysis_results' = Put(analysis_results, "visualizations", [plot_files |-> stamped, total_plots |-> Len(stamped)])
                  /\ outcome' = Returned("generate_visualizations", "None")
               \/ \E n \in 0..(Len(stamped) - 1) :
                     /\ disk' = [disk EXCEPT !.plots = @ \cup Range(HeadN(stamped, n))]
                     /\ outcome' = Raised("generate_visualizations", "ChartError")
                     /\ UNCHANGED analysis_results
       /\ clock' = clock + 1
       /\ UNCHANGED <<data, profiling_log>>

\* generate_visualizations: the chart generator is external and may raise at
\* any chart; the charts before that one are on disk by then.  Without a
\* table the first chart already raises.
generate_visualizations ==
    /\ IF data = None
       THEN /\ outcome' = Raised("generate_visualizations", "AttributeError")
            /\ UNCHANGED <<analysis_results, disk>>
       ELSE \/ /\ disk' = [disk EXCEPT !.plots = @ \cup Range(PlotFiles(data))]
               /\ analysis_results' = Put(analysis_results, "visualizations", [plot_files |-> PlotFiles(data), total_plots |-> Len(PlotFiles(data))])
               /\ outcome' = Returned("generate_visualizations", "None")
            \/ \E n \in 0..(Len(PlotFiles(data)) - 1) :
                  /\ disk' = [disk EXCEPT !.plots = @ \cup Range(HeadN(PlotFiles(data), n))]
                  /\ outcome' = Raised("generate_visualizations", "ChartError")
                  /\ UNCHANGED analysis_results
    /\ clock' = clock + 1
    /\ UNCHANGED <<data, profiling_log>>

\* What an external report generator can do: save its report, be missing
\* (ImportError) or fail (Exception); without a table it cannot save.
GeneratorOutcomes == IF data = None THEN {"ImportError", "Exception"} ELSE {"saved", "ImportError", "Exception"}

\* generate_profiling_reports with both generators in one try block: the
\* second one is not attempted when the first is missing or fails.
generate_profiling_reports_one_try ==
    /\ IF ~enable_profiling
       THEN UNCHANGED <<disk, profiling_log>>
       ELSE \E y \in GeneratorOutcomes, w \in GeneratorOutcomes :
               /\ disk' = [disk EXCEPT !.ydata = @ \/ (y = "saved"), !.sweetviz = @ \/ (y = "saved" /\ w = "saved")]
               /\ profiling_log' = [ydata |-> y, sweetviz |-> IF y = "saved" THEN w ELSE "none"]
    /\ outcome' = Returned("generate_profiling_reports", "None")
    /\ clock' = clock + 1
    /\ UNCHANGED <<data, analysis_results>>

\* generate_profiling_reports: each external generator is imported and run in
\* a try block of its own; it saves its report ("saved"), is not installed
\* ("ImportError") or fails ("Exception").  Without a table neither can save.
generate_profiling_reports ==
    /\ IF ~enable_profiling
       THEN UNCHANGED <<disk, profiling_log>>
       ELSE \E y \in GeneratorOutcomes, w \in GeneratorOutcomes :
               /\ disk' = [disk EXCEPT !.ydata = @ \/ (y = "saved"), !.sweetviz = @ \/ (w = "saved")]
               /\ profiling_log' = [ydata |-> y, sweetviz |-> w]
    /\ outcome' = Returned("generate_profiling_reports", "None")
    /\ clock' = clock + 1
    /\ UNCHANGED <<data, analysis_results>>

(***************************************************************************)
(* The Python values of analysis_results, as json.dump sees them: every    *)
(* value with the type the code that computed it gives it.                 *)
(***************************************************************************)
PyDict(items) == [type |-> "dict", items |-> items]
PyList(items) == [type |-> "list", items |-> items]

\* A scalar of the given type; nan tells a float that is NaN.
PyScalar(type, nan, val) == [type |-> type, nan |-> nan, val |-> val]

IsNan(r) == r.den = 0 /\ r.num = 0

PyInt(n) == PyScalar("int", FALSE, n)
PyStr(x) == PyScalar("str", FALSE, x)
PyFloat(r) == PyScalar("float", IsNan(r), r)
NpInt64(n) == PyScalar("numpy.int64", FALSE, n)
NpFloat64(r) == PyScalar("numpy.float64", IsNan(r), r)
PyNone == PyScalar("NoneType", FALSE, 0)

\* basic_info: shape is a tuple, the data types are dtype objects.
PyBasicInfo(v) ==
    PyDict([shape |-> PyScalar("tuple", FALSE, v.shape),
            columns |-> PyList([k \in 1..Len(v.columns) |-> PyStr(v.columns[k])]),
            data_types |-> PyDict([l \in DOMAIN v.data_types |-> PyScalar("numpy.dtype", FALSE, v.data_types[l])]),
            load_timestamp |-> PyStr(v.load_timestamp)])

\* basic_stats: len() gives ints, the pandas sums and the quotient of a sum
\* numpy scalars.
PyBasicStats(v) ==
    PyDict([total_rows |-> PyInt(v.total_rows),
            total_columns |-> PyInt(v.total_columns),
            numeric_columns |-> PyInt(v.numeric_columns),
            categorical_columns |-> PyInt(v.categorical_columns),
            datetime_columns |-> PyInt(v.datetime_columns),
            total_missing_values |-> NpInt64(v.total_missing_values),
            missing_percentage |-> NpFloat64(v.missing_percentage),
            duplicate_rows |-> NpInt64(v.duplicate_rows)])

\* Series.to_dict() boxes its values as Python numbers.
PyMissingData(v) ==
    PyDict([by_column |-> PyDict([l \in DOMAIN v.by_column |-> PyInt(v.by_column[l])]),
            by_percentage |-> PyDict([l \in DOMAIN v.by_percentage |-> PyFloat(v.by_percentage[l])])])

PyUniqueValues(v) ==
    PyDict([l \in DOMAIN v |-> PyDict([count |-> PyInt(v[l].count), percentage |-> PyFloat(v[l].percentage)])])

\* numeric_statistics: the cells of describe() and var() are numpy.float64;
\* the mode is an element of the column, a numpy scalar of the column's
\* dtype, or the Python float np.nan.
PyNumericStatistics(v) ==
    PyDict([l \in DOMAIN v |->
        PyDict([count |-> PyInt(v[l].count),
                mean |-> NpFloat64(v[l].mean),
                mode |-> IF IsNan(v[l].mode) THEN PyFloat(v[l].mode) ELSE PyScalar("numpy." \o data.dtypes[ColumnAt(data, l)], FALSE, v[l].mode),
                std |-> PyScalar("numpy.float64", IsNan(v[l].std.sqrt_of), v[l].std),
                min |-> NpFloat64(v[l].min),
                max |-> NpFloat64(v[l].max),
                variance |-> NpFloat64(v[l].variance)])])

PyCell(c) == IF c.kind = "null" THEN PyNone ELSE PyStr(c)

PyCategoricalStatistics(v) ==
    PyDict([l \in DOMAIN v |->
        PyDict([unique_count |-> PyInt(v[l].unique_count),
                most_frequent |-> PyCell(v[l].most_frequent),
                most_frequent_count |-> PyInt(v[l].most_frequent_count),
                least_frequent |-> PyCell(v[l].least_frequent),
                least_frequent_count |-> PyInt(v[l].least_frequent_count),
                top_5_values |-> PyList([k \in 1..Len(v[l].top_5_values) |-> PyDict([value |-> PyStr(v[l].top_5_values[k].value), count |-> PyInt(v[l].top_5_values[k].count)])])])])

PyOutliers(v) ==
    PyDict([m \in DOMAIN v |->
        PyDict([l \in DOMAIN v[m] |->
            PyDict([count |-> PyInt(v[m][l].count),
                    percentage |-> PyFloat(v[m][l].percentage),
                    indices |-> PyList([k \in 1..Len(v[m][l].indices) |-> PyInt(v[m][l].indices[k])])])])])

PyVisualizations(v) ==
    PyDict([plot_files |-> PyList([k \in 1..Len(v.plot_files) |-> PyStr(v.plot_files[k])]),
            total_plots |-> PyInt(v.total_plots)])

PySection(s, v) ==
    CASE s = "basic_info" -> PyBasicInfo(v)
      [] s = "basic_stats" -> PyBasicStats(v)
      [] s = "missing_data" -> PyMissingData(v)
      [] s = "unique_values" -> PyUniqueValues(v)
      [] s = "numeric_statistics" -> PyNumericStatistics(v)
      [] s = "categorical_statistics" -> PyCategoricalStatistics(v)
      [] s = "outliers" -> PyOutliers(v)
      [] s = "visualizations" -> PyVisualizations(v)

PyResults(ar) == PyDict([s \in DOMAIN ar |-> PySection(s, ar[s])])

\* _convert_numpy_types: the first branch that matches decides.  pd.isna is
\* asked only about what is no dict, list, numpy integer, numpy floating or
\* array, and is true of None and of a Python float that is NaN.
NpInteger == {"numpy.int64"}
NpFloating == {"numpy.float64"}

RECURSIVE _convert_numpy_types(_)
_convert_numpy_types(obj) ==
    IF obj.type = "dict" THEN PyDict([key \in DOMAIN obj.items |-> _convert_numpy_types(obj.items[key])])
    ELSE IF obj.type = "list" THEN PyList([k \in DOMAIN obj.items |-> _convert_numpy_types(obj.items[k])])
    ELSE IF obj.type \in NpInteger THEN [obj EXCEPT !.type = "int"]
    ELSE IF obj.type \in NpFloating THEN [obj EXCEPT !.type = "float"]
    ELSE IF obj.type = "numpy.ndarray" THEN [obj EXCEPT !.type = "list"]
    ELSE IF obj.type = "NoneType" \/ (obj.type = "float" /\ obj.nan) THEN PyNone
    ELSE obj

\* _generate_key_findings_html: the findings, in the order they are appended.
\* A comparison with nan is false.
HighMissingPercent == 10

\* The findings with the high-missing-data threshold met at 10 percent
\* already.
KeyFindings_inclusive(ar) ==
    LET basic_stats == IF "basic_stats" \in DOMAIN ar THEN ar["basic_stats"] ELSE [missing_percentage |-> Ratio(0, 1), duplicate_rows |-> 0]
        mp == basic_stats.missing_percentage
        high == mp.den > 0 /\ mp.num >= HighMissingPercent * mp.den
        complete == ~high /\ mp.den > 0 /\ mp.num = 0
        correlation == "numeric_statistics" \in DOMAIN ar /\ Cardinality(DOMAIN ar["numeric_statistics"]) > 1
        findings == (IF high THEN <<"high_missing">> ELSE IF complete THEN <<"complete">> ELSE <<>>)
                    \o (IF basic_stats.duplicate_rows > 0 THEN <<"duplicates">> ELSE <<>>)
                    \o (IF correlation THEN <<"correlation">> ELSE <<>>)
    IN IF findings = <<>> THEN <<"well_structured">> ELSE findings

KeyFindings(ar) ==
    LET basic_stats == IF "basic_stats" \in DOMAIN ar THEN ar["basic_stats"] ELSE [missing_percentage |-> Ratio(0, 1), duplicate_rows |-> 0]
        mp == basic_stats.missing_percentage
        high == mp.den > 0 /\ mp.num > HighMissingPercent * mp.den
        complete == ~high /\ mp.den > 0 /\ mp.num = 0
        correlation == "numeric_statistics" \in DOMAIN ar /\ Cardinality(DOMAIN ar["numeric_statistics"]) > 1
        findings == (IF high THEN <<"high_missing">> ELSE IF complete THEN <<"complete">> ELSE <<>>)
                    \o (IF basic_stats.duplicate_rows > 0 THEN <<"duplicates">> ELSE <<>>)
                    \o (IF correlation THEN <<"correlation">> ELSE <<>>)
    IN IF findings = <<>> THEN <<"well_structured">> ELSE findings

\* _create_html_report: what it raises before any file is opened.  Only
\* _generate_column_info_html indexes analysis_results without a default.
CreateHtmlRaises ==
    IF data = None THEN "AttributeError"
    ELSE IF NCols(data) > 0 /\ (~({"missing_data", "unique_values"} \subseteq DOMAIN analysis_results) \/ ~(Range(data.columns) \subseteq DOMAIN analysis_results["unique_values"])) THEN "KeyError"
    ELSE "none"

\* Where writing the two report files can fail (OSError): opening or writing
\* eda_report.html, opening eda_summary.json, or dumping into it.
IoOutcomes == {"ok", "html_open", "html_write", "json_open", "json_dump"}

generate_summary_report ==
    /\ IF CreateHtmlRaises # "none"
       THEN /\ outcome' = Raised("generate_summary_report", CreateHtmlRaises)
            /\ UNCHANGED disk
       ELSE \E io \in IoOutcomes :
               LET html == [disk EXCEPT !.html = "complete", !.findings = KeyFindings(analysis_results)]
               IN /\ disk' = CASE io = "html_open"  -> disk
                               [] io = "html_write" -> [disk EXCEPT !.html = "partial", !.findings = <<>>]
                               [] io = "json_open"  -> html
                               [] io = "json_dump"  -> [html EXCEPT !.json = "partial", !.summary = NoSummary]
                               [] io = "ok"         -> [html EXCEPT !.json = "complete", !.summary = _convert_numpy_types(PyResults(analysis_results))]
                  /\ outcome' = IF io = "ok" THEN Returned("generate_summary_report", "paths") ELSE Raised("generate_summary_report", "OSError")
    /\ clock' = clock + 1
    /\ UNCHANGED <<data, analysis_results, profiling_log>>

(***************************************************************************)
(* run_full_analysis, one step per stage call.  A stage that raises takes  *)
(* control to the except clause, which returns False.                      *)
(***************************************************************************)
\* AfterStage with each stage in a try block of its own that logs and goes on.
AfterStage_swallow(name, next) ==
    /\ calls' = Append(calls, name)
    /\ pc' = next
    /\ UNCHANGED result

\* What follows a stage call inside the try block.
AfterStage(name, next) ==
    /\ calls' = Append(calls, name)
    /\ IF outcome'.raised # "none"
       THEN pc' = "returned" /\ result' = "False"
       ELSE pc' = next /\ UNCHANGED result

\* RunLoad without the test of load_data's return value.
RunLoad_unchecked ==
    /\ pc = "rfa_load"
    /\ load_data
    /\ calls' = Append(calls, "load_data")
    /\ pc' = "rfa_basic"
    /\ UNCHANGED result
    /\ UNCHANGED <<inputs, mainvars>>

RunLoad ==
    /\ pc = "rfa_load"
    /\ load_data
    /\ calls' = Append(calls, "load_data")
    /\ IF outcome'.ret = "True"
       THEN pc' = "rfa_basic" /\ UNCHANGED result
       ELSE pc' = "returned" /\ result' = "False"
    /\ UNCHANGED <<inputs, mainvars>>

RunBasicInfo ==
    /\ pc = "rfa_basic"
    /\ analyze_basic_info
    /\ AfterStage("analyze_basic_info", "rfa_desc")
    /\ UNCHANGED <<inputs, mainvars>>

RunDescriptive ==
    /\ pc = "rfa_desc"
    /\ analyze_descriptive_statistics
    /\ AfterStage("analyze_descriptive_statistics", "rfa_outliers")
    /\ UNCHANGED <<inputs, mainvars>>

RunOutliers ==
    /\ pc = "rfa_outliers"
    /\ detect_outliers(DefaultMethods)
    /\ AfterStage("detect_outliers", "rfa_viz")
    /\ UNCHANGED <<inputs, mainvars>>

RunVisualizations ==
    /\ pc = "rfa_viz"
    /\ generate_visualizations
    /\ AfterStage("generate_visualizations", "rfa_prof")
    /\ UNCHANGED <<inputs, mainvars>>

RunProfiling ==
    /\ pc = "rfa_prof"
    /\ generate_profiling_reports
    /\ AfterStage("generate_profiling_reports", "rfa_report")
    /\ UNCHANGED <<inputs, mainvars>>

RunReport ==
    /\ pc = "rfa_report"
    /\ generate_summary_report
    /\ calls' = Append(calls, "generate_summary_report")
    /\ pc' = "returned"
    /\ result' = IF outcome'.raised # "none" THEN "False" ELSE "True"
    /\ UNCHANGED <<inputs, mainvars>>

(***************************************************************************)
(* main of automated_eda.py.                                               *)
(***************************************************************************)
\* The two checks of the --file argument; each failure is sys.exit(1).
MainValidate ==
    /\ pc = "main"
    /\ IF csv.kind = "missing" \/ ~args.ext_csv
       THEN pc' = "exited" /\ exit_code' = 1
       ELSE pc' = "construct" /\ UNCHANGED exit_code
    /\ UNCHANGED <<inputs, objvars, calls, result, completion>>

\* AutomatedEDA(...): creating the output directories may raise OSError,
\* which main's except clause turns into sys.exit(1).
MainConstruct ==
    /\ pc = "construct"
    /\ \/ /\ enable_profiling' = ~args.no_profiling
          /\ pc' = "rfa_load"
          /\ UNCHANGED exit_code
       \/ /\ pc' = "exited"
          /\ exit_code' = 1
          /\ UNCHANGED enable_profiling
    /\ UNCHANGED <<args, csv, objvars, calls, result, completion>>

\* run_full_analysis has returned: main drops the returned value, prints
\* "EDA Complete" and falls off its end (exit status 0).
MainComplete ==
    /\ pc = "returned"
    /\ completion' = TRUE
    /\ pc' = "exited"
    /\ UNCHANGED <<inputs, objvars, calls, result, exit_code>>

Init ==
    /\ args \in [ext_csv : BOOLEAN, no_profiling : BOOLEAN]
    /\ csv \in Files
    /\ enable_profiling = TRUE
    /\ Constructed
    /\ pc = "main"
    /\ calls = <<>>
    /\ result = "none"
    /\ exit_code = 0
    /\ completion = FALSE

Next ==
    \/ MainValidate
    \/ MainConstruct
    \/ RunLoad
    \/ RunBasicInfo
    \/ RunDescriptive
    \/ RunOutliers
    \/ RunVisualizations
    \/ RunProfiling
    \/ RunReport
    \/ MainComplete

Spec == Init /\ [][Next]_vars

(***************************************************************************)
(* The programmatic API: a constructed object whose methods a caller       *)
(* invokes one at a time, in any order (example_usage.py).                 *)
(***************************************************************************)
\* The methods lists a caller passes to detect_outliers.
MethodLists == {DefaultMethods, <<"iqr">>, <<"zscore">>, <<"iqr", "other">>}

callervars == <<inputs, pc, calls, result, mainvars>>

\* The files of the API runs: those of Files with at most MaxApiCells cells.
ApiFiles == {f \in Files : Len(f.header) * Len(f.rows) <= MaxApiCells}

\* The caller makes at most MaxApiCalls calls.
ApiCall == pc = "api" /\ clock < MaxApiCalls

ApiLoad == ApiCall /\ load_data /\ UNCHANGED callervars
ApiBasicInfo == ApiCall /\ analyze_basic_info /\ UNCHANGED callervars
ApiDescriptive == ApiCall /\ analyze_descriptive_statistics /\ UNCHANGED callervars
ApiOutliers == ApiCall /\ (\E methods \in MethodLists : detect_outliers(methods)) /\ UNCHANGED callervars
ApiVisualizations == ApiCall /\ generate_visualizations /\ UNCHANGED callervars
ApiProfiling == ApiCall /\ generate_profiling_reports /\ UNCHANGED callervars
ApiReport == ApiCall /\ generate_summary_report /\ UNCHANGED callervars

InitAPI ==
    /\ args = [ext_csv |-> TRUE, no_profiling |-> FALSE]
    /\ csv \in ApiFiles
    /\ enable_profiling \in BOOLEAN
    /\ Constructed
    /\ pc = "api"
    /\ calls = <<>>
    /\ result = "none"
    /\ exit_code = 0
    /\ completion = FALSE

NextAPI ==
    \/ ApiLoad
    \/ ApiBasicInfo
    \/ ApiDescriptive
    \/ ApiOutliers
    \/ ApiVisualizations
    \/ ApiProfiling
    \/ ApiReport

SpecAPI == InitAPI /\ [][NextAPI]_vars

(***************************************************************************)
(* A script over longer tables: load, basic information (or not),          *)
(* descriptive statistics, then either outlier detection or the summary    *)
(* report; an exception ends the script (demonstrate_api_usage of          *)
(* example_usage.py).                                                      *)
(* The z-score of a value exceeds 3 only among at least 11 values, and a   *)
(* missing percentage in (0, 10] takes at least 10 cells.                  *)
(***************************************************************************)
\* Column "a" of a long table holds Num(0) in every row ("constant"), the
\* row number ("distinct") or one of six text tokens in turn ("text"),
\* except for an empty cell and a cell with a far value (each at any row, or
\* at none: row 0); "two_columns" adds a column "b" of row numbers to the
\* constant shape.
SeriesShapes == {"constant", "distinct", "text", "two_columns"}

SeriesRow(shape, k, empty, far) ==
    LET a == IF k = far THEN Num(100) ELSE IF k = empty THEN Null ELSE IF shape = "distinct" THEN Num(k) ELSE IF shape = "text" THEN Str(1 + (k % 6)) ELSE Num(0)
    IN IF shape = "two_columns" THEN <<a, Num(k)>> ELSE <<a>>

SeriesFile(shape, n, empty, far) ==
    [kind |-> "table",
     header |-> IF shape = "two_columns" THEN <<"a", "b">> ELSE <<"a">>,
     rows |-> [k \in 1..n |-> SeriesRow(shape, k, empty, far)]]

SeriesFiles ==
    UNION {{SeriesFile(shape, n, empty, far) : shape \in SeriesShapes, empty \in 0..n, far \in 0..n} : n \in 0..MaxSeriesLen}

SeriesMethodLists == MethodLists \cup {<<"zscore", "iqr">>}

\* The script is at the call after op when op has returned.
SeriesAfter(op) == pc = "series" /\ outcome.op = op /\ outcome.raised = "none"

SeriesLoad == SeriesAfter("__init__") /\ load_data /\ UNCHANGED callervars
SeriesBasicInfo == SeriesAfter("load_data") /\ analyze_basic_info /\ UNCHANGED callervars
SeriesDescriptive == (SeriesAfter("load_data") \/ SeriesAfter("analyze_basic_info")) /\ analyze_descriptive_statistics /\ UNCHANGED callervars
SeriesOutliers == SeriesAfter("analyze_descriptive_statistics") /\ (\E methods \in SeriesMethodLists : detect_outliers(methods)) /\ UNCHANGED callervars
SeriesReport == SeriesAfter("analyze_descriptive_statistics") /\ generate_summary_report /\ UNCHANGED callervars

InitSeries ==
    /\ args = [ext_csv |-> TRUE, no_profiling |-> TRUE]
    /\ csv \in SeriesFiles
    /\ enable_profiling = FALSE
    /\ Constructed
    /\ pc = "series"
    /\ calls = <<>>
    /\ result = "none"
    /\ exit_code = 0
    /\ completion = FALSE

NextSeries ==
    \/ SeriesLoad
    \/ SeriesBasicInfo
    \/ SeriesDescriptive
    \/ SeriesOutliers
    \/ SeriesReport

SpecSeries == InitSeries /\ [][NextSeries]_vars

(***************************************************************************)
(* The command line run again after a run that succeeded, on the same file *)
(* and the same output directory: a new process and a new object, the      *)
(* files of the earlier run still on disk, the clock further on.           *)
(***************************************************************************)
\* A run is started again only while fewer than MaxRerunClock calls were
\* made.
MainRerun ==
    /\ pc = "exited"
    /\ result = "True"
    /\ clock < MaxRerunClock
    /\ data' = None
    /\ analysis_results' = EmptyDict
    /\ outcome' = Returned("__init__", "None")
    /\ profiling_log' = NoLog
    /\ pc' = "main"
    /\ calls' = <<>>
    /\ result' = "none"
    /\ exit_code' = 0
    /\ completion' = FALSE
    /\ UNCHANGED <<inputs, disk, clock>>

InitRerun ==
    /\ args \in [ext_csv : {TRUE}, no_profiling : BOOLEAN]
    /\ csv \in ApiFiles
    /\ enable_profiling = TRUE
    /\ Constructed
    /\ pc = "main"
    /\ calls = <<>>
    /\ result = "none"
    /\ exit_code = 0
    /\ completion = FALSE

NextRerun ==
    \/ MainValidate
    \/ MainConstruct
    \/ RunLoad
    \/ RunBasicInfo
    \/ RunDescriptive
    \/ RunOutliers
    \/ RunVisualizations
    \/ RunProfiling
    \/ RunReport
    \/ MainComplete
    \/ MainRerun

SpecRerun == InitRerun /\ [][NextRerun]_vars

(***************************************************************************)
(* Properties of run_full_analysis and main (specification Spec).          *)
(***************************************************************************)
StageOrder == <<"load_data", "analyze_basic_info", "analyze_descriptive_statistics", "detect_outliers", "generate_visualizations", "generate_profiling_reports", "generate_summary_report">>

\* What a stage leaves behind when it completes: the table, the sections.
Completed(stage) ==
    CASE stage = "load_data" -> data # None /\ "basic_info" \in DOMAIN analysis_results
      [] stage = "analyze_basic_info" -> {"basic_stats", "missing_data", "unique_values"} \subseteq DOMAIN analysis_results
      [] stage = "analyze_descriptive_statistics" -> {"numeric_statistics", "categorical_statistics"} \subseteq DOMAIN analysis_results
      [] stage = "detect_outliers" -> "outliers" \in DOMAIN analysis_results
      [] stage = "generate_visualizations" -> "visualizations" \in DOMAIN analysis_results
      [] stage = "generate_profiling_reports" -> TRUE
      [] stage = "generate_summary_report" -> disk.html = "complete" /\ disk.json = "complete"

Finished == pc \in {"returned", "exited"}

\* C1: run_full_analysis calls the stages in the order load, basic info,
\* descriptive statistics, outliers, visualizations, (profiling,) summary
\* report; when a stage has been called every earlier stage has completed
\* successfully; and it returns True only after the report stage completed.
C1_StagesInOrder ==
    /\ Len(calls) <= Len(StageOrder)
    /\ \A k \in 1..Len(calls) : calls[k] = StageOrder[k]
    /\ \A k \in 1..(Len(calls) - 1) : Completed(calls[k])
    /\ Len(calls) > 0 => outcome.op = calls[Len(calls)]
    /\ result = "True" => /\ calls = StageOrder
                          /\ outcome = Returned("generate_summary_report", "paths")
                          /\ Completed("generate_summary_report")

C1_Witness == pc = "exited" /\ result = "True" /\ calls = StageOrder /\ NRows(data) > 1

\* C2: when the input cannot be parsed as a table, run_full_analysis calls
\* load_data and nothing after it and returns False; analysis_results stays
\* empty, the table stays unset and no chart, report or summary file exists.
C2_LoadFailureHalts ==
    (ReadCsvRaises(csv) /\ Len(calls) > 0) =>
        /\ calls = <<"load_data">>
        /\ Finished /\ result = "False"
        /\ data = None
        /\ analysis_results = EmptyDict
        /\ disk = EmptyDisk

C2_Witness == pc = "exited" /\ csv.kind = "malformed" /\ result = "False" /\ calls = <<"load_data">>

\* C3: when a stage called by run_full_analysis raises, no stage is called
\* after it (the raising stage stays the last call) and run_full_analysis
\* has returned, with the value False: the error is caught inside it.
C3_StageErrorIsFatal ==
    (Len(calls) > 0 /\ outcome.raised # "none") =>
        /\ outcome.op = calls[Len(calls)]
        /\ Finished /\ result = "False"

C3_Witness ==
    /\ pc = "exited" /\ result = "False" /\ data # None
    /\ outcome = Raised("generate_visualizations", "ChartError")
    /\ calls = [k \in 1..5 |-> StageOrder[k]]

\* C4 (as claimed): whenever run_full_analysis has returned False, neither
\* eda_report.html nor eda_summary.json is on disk, in whole or in part.
C4_NoReportOnFailure ==
    result = "False" => disk.html = "absent" /\ disk.json = "absent"

\* C5: generate_profiling_reports never raises; disabled, it attempts no
\* generator and writes no report; enabled, it attempts both generators
\* whatever the first one did; and run_full_analysis goes on to
\* generate_summary_report after it.
C5_ProfilingNeverFatal ==
    /\ outcome.op = "generate_profiling_reports" => outcome.raised = "none"
    /\ ~enable_profiling => profiling_log = NoLog /\ ~disk.ydata /\ ~disk.sweetviz
    /\ (enable_profiling /\ Len(calls) >= 6) => profiling_log.ydata # "none" /\ profiling_log.sweetviz # "none"
    /\ Len(calls) = 6 => pc = "rfa_report" /\ result = "none"
    /\ (Len(calls) = 7 /\ outcome.raised = "none") => result = "True"

C5_Witness ==
    /\ pc = "exited" /\ result = "True" /\ enable_profiling
    /\ profiling_log = [ydata |-> "ImportError", sweetviz |-> "Exception"]

\* C6 (as claimed): when the process has exited after run_full_analysis
\* returned False, its exit code is not 0 and it has not printed the
\* completion message.
C6_ExitCodeReflectsFailure ==
    (pc = "exited" /\ result = "False") => exit_code # 0 /\ ~completion

(***************************************************************************)
(* Properties of the methods called in any order (specification SpecAPI).  *)
(***************************************************************************)
\* Failures of the surroundings (the chart generator, the file system), as
\* opposed to exceptions raised by the code of the stages.
EnvironmentErrors == {"ChartError", "OSError"}

\* C7 (as claimed, its clause on generate_summary_report): once load_data has
\* succeeded, generate_summary_report invoked on its own, whatever was or
\* was not invoked before it, does not raise (failures of the file system
\* aside).
C7_ReportIndependent ==
    (data # None /\ outcome.op = "generate_summary_report") => outcome.raised \in {"none"} \cup EnvironmentErrors

\* C8 (as claimed): no step removes a section of analysis_results or changes
\* the content of a section that is already there.
C8_SectionsNeverRevised ==
    [][\A s \in DOMAIN analysis_results : s \in DOMAIN analysis_results' /\ analysis_results'[s] = analysis_results[s]]_vars

\* The sections each method writes.
Writes(op) ==
    CASE op = "load_data" -> {"basic_info"}
      [] op = "analyze_basic_info" -> {"basic_stats", "missing_data", "unique_values"}
      [] op = "analyze_descriptive_statistics" -> {"numeric_statistics", "categorical_statistics"}
      [] op = "detect_outliers" -> {"outliers"}
      [] op = "generate_visualizations" -> {"visualizations"}
      [] OTHER -> {}

\* C8 (amended): no step removes a section of analysis_results, and a step
\* changes the content of a section only if it is a call of the method that
\* writes that section: no method revises a section written by another.
C8_SectionsOwned ==
    [][\A s \in DOMAIN analysis_results :
          /\ s \in DOMAIN analysis_results'
          /\ analysis_results'[s] # analysis_results[s] => s \in Writes(outcome'.op)]_vars

\* A reload has rewritten basic_info (new timestamp) while the sections of
\* analyze_basic_info, written between the two loads, are still there.
C8_Witness ==
    /\ outcome = Returned("load_data", "True")
    /\ "basic_info" \in DOMAIN analysis_results
    /\ analysis_results["basic_info"].load_timestamp = 2
    /\ "basic_stats" \in DOMAIN analysis_results

\* C9: a step changes the table only if it is a call of load_data; the stage
\* methods and generate_profiling_reports leave it as it is.
C9_TableReadOnly ==
    [][data' # data => outcome'.op = "load_data"]_vars

\* A table with a null has been through outlier detection, chart generation
\* and more.
C9_Witness ==
    /\ data # None /\ clock = 3
    /\ SumSeq(IsnullSum(data)) > 0
    /\ "outliers" \in DOMAIN analysis_results
    /\ outcome.op \in {"generate_visualizations", "generate_summary_report", "generate_profiling_reports", "analyze_descriptive_statistics", "analyze_basic_info"}

(***************************************************************************)
(* Properties of the metrics.                                              *)
(***************************************************************************)
\* The sum of the values of a dict.
RECURSIVE SumDict(_)
SumDict(d) ==
    IF DOMAIN d = {} THEN 0
    ELSE LET k == CHOOSE x \in DOMAIN d : TRUE
         IN d[k] + SumDict([x \in DOMAIN d \ {k} |-> d[x]])

\* C10: once analyze_basic_info has stored its sections, the per-column
\* missing counts of missing_data.by_column add up to
\* basic_stats.total_missing_values.
C10_MissingCountsAddUp ==
    "missing_data" \in DOMAIN analysis_results =>
        SumDict(analysis_results["missing_data"].by_column) = analysis_results["basic_stats"].total_missing_values

\* Two columns of the same raw name, nulls in both, one row with two nulls.
C10_Witness ==
    /\ "missing_data" \in DOMAIN analysis_results
    /\ NCols(data) = 2 /\ csv.header[1] = csv.header[2]
    /\ \A l \in DOMAIN analysis_results["missing_data"].by_column : analysis_results["missing_data"].by_column[l] > 0
    /\ \E k \in 1..NRows(data) : \A i \in 1..NCols(data) : data.rows[k][i].kind = "null"
    /\ analysis_results["basic_stats"].total_missing_values = 3

(***************************************************************************)
(* Claims about the metric engine.                                         *)
(***************************************************************************)
HasNullCell(df) == \E k \in 1..NRows(df), i \in 1..NCols(df) : df.rows[k][i].kind = "null"

\* C11: for any loaded table, the missing_percentage that analyze_basic_info
\* computes is a number between 0 and 100, and it is 0 exactly when the
\* table has no null cell.
C11_MissingPercentageInRange ==
    (data # None /\ outcome.op = "analyze_basic_info") =>
        LET mp == BasicStats(data).missing_percentage
        IN /\ mp.den > 0
           /\ 0 <= mp.num /\ mp.num <= 100 * mp.den
           /\ (mp.num = 0) <=> ~HasNullCell(data)

\* C12: on a table with columns and no rows analyze_basic_info completes
\* without raising and stores total_rows = 0 and missing_percentage = 0.
C12_EmptyTableNoDivisionError ==
    (data # None /\ NRows(data) = 0 /\ NCols(data) > 0 /\ outcome.op = "analyze_basic_info") =>
        /\ outcome.raised = "none"
        /\ "basic_stats" \in DOMAIN analysis_results
        /\ analysis_results["basic_stats"].total_rows = 0
        /\ analysis_results["basic_stats"].missing_percentage.den > 0
        /\ analysis_results["basic_stats"].missing_percentage.num = 0

(***************************************************************************)
(* Claims about the outlier detector.                                      *)
(***************************************************************************)
\* Row k of column i holds a value whose own z-score, among the non-null
\* values of the column, is beyond 3 in absolute value.
ZscoreBeyond3(df, i, k) ==
    LET x == Dropna(df, i)
        n == Len(x)
        S == SumSeq(x)
        Q == SumSeq([p \in 1..n |-> x[p] * x[p]])
        own == df.rows[k][i].val
    IN df.rows[k][i].kind # "null" /\ (n * own - S) * (n * own - S) > 9 * (n * Q - S * S)

\* C13: the row identifiers recorded for the z-score method are those of
\* exactly the rows whose own non-null value has |z| > 3, also when null
\* cells come before such a row.
C13_ZscoreRowIdentity ==
    ("outliers" \in DOMAIN analysis_results /\ "zscore" \in DOMAIN analysis_results["outliers"]) =>
        \A l \in DOMAIN analysis_results["outliers"]["zscore"] :
            Range(analysis_results["outliers"]["zscore"][l].indices) = {k \in 1..NRows(data) : ZscoreBeyond3(data, ColumnAt(data, l), k)}

\* C14: for either method, every recorded row identifier is a row of the
\* table, and count is the number of recorded identifiers and at most the
\* row count.
C14_IdentifiersOfTableRows ==
    "outliers" \in DOMAIN analysis_results =>
        \A m \in DOMAIN analysis_results["outliers"] : \A l \in DOMAIN analysis_results["outliers"][m] :
            LET rec == analysis_results["outliers"][m][l]
            IN /\ Range(rec.indices) \subseteq 1..NRows(data)
               /\ rec.count = Len(rec.indices)
               /\ rec.count = Cardinality(Range(rec.indices))
               /\ rec.count <= NRows(data)

C14_Witness ==
    /\ "outliers" \in DOMAIN analysis_results
    /\ {"iqr", "zscore"} \subseteq DOMAIN analysis_results["outliers"]
    /\ \E l \in DOMAIN analysis_results["outliers"]["zscore"] :
          /\ analysis_results["outliers"]["zscore"][l].count > 0
          /\ analysis_results["outliers"]["iqr"][l].count > 0
          /\ HasNullCell(data)

\* The q-th quartile (q = 1 or 3) of the non-null values of column i as the
\* fraction num/den: the value at rank 1 + q (n - 1) / 4 of the ascending
\* values, interpolated linearly between neighbouring ranks.
Percentile(df, i, q) ==
    LET v == SortValues(Dropna(df, i))
        below == 1 + (q * (Len(v) - 1)) \div 4
        part == (q * (Len(v) - 1)) % 4
    IN IF part = 0 THEN Ratio(v[below], 1) ELSE Ratio(v[below] * (4 - part) + v[below + 1] * part, 4)

\* x < num/den and x > num/den for den > 0.
Below(x, r) == x * r.den < r.num
Above(x, r) == x * r.den > r.num

\* Q1 - 1.5 (Q3 - Q1) and Q3 + 1.5 (Q3 - Q1) as fractions.
LowerBound(df, i) ==
    LET Q1 == Percentile(df, i, 1)
        Q3 == Percentile(df, i, 3)
    IN Ratio(5 * Q1.num * Q3.den - 3 * Q3.num * Q1.den, 2 * Q1.den * Q3.den)
UpperBound(df, i) ==
    LET Q1 == Percentile(df, i, 1)
        Q3 == Percentile(df, i, 3)
    IN Ratio(5 * Q3.num * Q1.den - 3 * Q1.num * Q3.den, 2 * Q1.den * Q3.den)

\* C15: for the IQR method a row is recorded exactly when its value is
\* non-null and strictly below Q1 - 1.5 IQR or strictly above Q3 + 1.5 IQR;
\* a value on a bound and a null are never recorded.
C15_IqrStrictBounds ==
    ("outliers" \in DOMAIN analysis_results /\ "iqr" \in DOMAIN analysis_results["outliers"]) =>
        \A l \in DOMAIN analysis_results["outliers"]["iqr"] : \A k \in 1..NRows(data) :
            LET i == ColumnAt(data, l)
                cell == data.rows[k][i]
            IN k \in Range(analysis_results["outliers"]["iqr"][l].indices) <=>
                  /\ cell.kind # "null"
                  /\ Below(cell.val, LowerBound(data, i)) \/ Above(cell.val, UpperBound(data, i))

\* A recorded row, a row with a value on a bound and a null row in one column.
C15_Witness ==
    /\ "outliers" \in DOMAIN analysis_results
    /\ "iqr" \in DOMAIN analysis_results["outliers"]
    /\ \E l \in DOMAIN analysis_results["outliers"]["iqr"] :
          LET i == ColumnAt(data, l)
          IN /\ analysis_results["outliers"]["iqr"][l].count > 0
             /\ \E k \in 1..NRows(data) : data.rows[k][i].kind = "null"
             /\ \E k \in NonNullRows(data, i) : data.rows[k][i].val * UpperBound(data, i).den = UpperBound(data, i).num
             /\ Percentile(data, i, 1).den = 4

\* C16: detect_outliers called with a methods list drawn from iqr and zscore
\* (the stored dict has exactly the listed methods as keys) on a table with
\* a numeric column returns without raising, and the dict holds one record
\* per listed method and numeric column.
C16_AnyMethodsListCompletes ==
    (/\ outcome.op = "detect_outliers"
     /\ NumericCols(data) # {}
     /\ "outliers" \in DOMAIN analysis_results
     /\ DOMAIN analysis_results["outliers"] \subseteq {"iqr", "zscore"}) =>
        /\ outcome.raised = "none"
        /\ \A m \in DOMAIN analysis_results["outliers"] : DOMAIN analysis_results["outliers"][m] = Labels(data, NumericCols(data))

(***************************************************************************)
(* Claims about the report assembler.                                      *)
(***************************************************************************)
Holds(finding) == finding \in Range(disk.findings)

RECURSIVE PlainWithNulls(_)
PlainWithNulls(obj) ==
    IF obj.type \in {"dict", "list"} THEN \A key \in DOMAIN obj.items : PlainWithNulls(obj.items[key])
    ELSE obj.type \notin NpInteger \cup NpFloating \cup {"numpy.ndarray"} /\ ~obj.nan

\* C18: in the written JSON summary every missing or undefined value is the
\* null marker, also a NaN that was held in a numpy float, and every numpy
\* integer, float and array is a plain number or sequence, at every depth.
C18_MissingValuesBecomeNull ==
    disk.json = "complete" => PlainWithNulls(disk.summary)

\* The JSON summary with its load timestamp blanked.
WithoutTimestamp(summary) ==
    [summary EXCEPT !.items = [@ EXCEPT !["basic_info"] = [@ EXCEPT !.items = [@ EXCEPT !["load_timestamp"] = PyStr(0)]]]]

LoadTimestamp(summary) == summary.items["basic_info"].items["load_timestamp"].val

\* C19: when a run of the full pipeline writes its JSON summary over the one
\* an earlier run on the same file left in the same output directory, the
\* two summaries are equal (sections, keys, values, chart file names) but
\* for the load timestamp, and the file then holds the later run's summary.
C19_RerunSameSummary ==
    [][(disk.json = "complete" /\ clock' # clock /\ outcome'.op = "generate_summary_report" /\ outcome'.raised = "none") =>
          /\ WithoutTimestamp(disk'.summary) = WithoutTimestamp(disk.summary)
          /\ LoadTimestamp(disk'.summary) = analysis_results["basic_info"].load_timestamp
          /\ LoadTimestamp(disk'.summary) > LoadTimestamp(disk.summary)
          /\ disk'.plots = disk.plots]_vars

\* The second of two successful runs has written its summary.
C19_Witness ==
    /\ result = "True"
    /\ disk.json = "complete"
    /\ LoadTimestamp(disk.summary) > 0
    /\ "visualizations" \in DOMAIN disk.summary.items

(***************************************************************************)
(* Claims about degenerate columns.                                        *)
(***************************************************************************)
\* Column i is numeric and its non-null values, at least atleast of them,
\* are all the same.
ConstantColumn(df, i, atleast) ==
    /\ i \in NumericCols(df)
    /\ Len(Dropna(df, i)) >= atleast
    /\ Cardinality(Range(Dropna(df, i))) = 1

\* After the metric and outlier stages, column i has std 0 and variance 0
\* and no row of it is recorded by either method.
ZeroSpreadNoOutliers(i) ==
    LET l == data.columns[i]
        variance == analysis_results["numeric_statistics"][l].variance
        std == analysis_results["numeric_statistics"][l].std
    IN /\ outcome.raised = "none"
       /\ variance.den > 0 /\ variance.num = 0
       /\ std.sqrt_of.den > 0 /\ std.sqrt_of.num = 0
       /\ analysis_results["outliers"]["iqr"][l].count = 0
       /\ analysis_results["outliers"]["zscore"][l].count = 0

\* detect_outliers was called with both methods after the metric stages.
BothMethodsRun ==
    /\ outcome.op = "detect_outliers"
    /\ "outliers" \in DOMAIN analysis_results
    /\ DOMAIN analysis_results["outliers"] = {"iqr", "zscore"}

\* C20 as stated: a numeric column whose non-null values are all identical
\* has std 0 and variance 0, and neither method flags a row of it.
C20_ConstantColumn ==
    BothMethodsRun => \A i \in 1..NCols(data) : ConstantColumn(data, i, 1) => ZeroSpreadNoOutliers(i)

\* C20, amended: the same for a column with at least two non-null values.
C20_ConstantColumnOfTwo ==
    BothMethodsRun => \A i \in 1..NCols(data) : ConstantColumn(data, i, 2) => ZeroSpreadNoOutliers(i)

C20_Witness ==
    /\ BothMethodsRun
    /\ \E i \in 1..NCols(data) : ConstantColumn(data, i, 2) /\ HasNullCell(data) /\ ZeroSpreadNoOutliers(i)

(***************************************************************************)
(* Claims about categorical statistics.                                    *)
(***************************************************************************)
\* The number of rows of column i holding the value v, and the counts of
\* the distinct non-null values of the column.
RowsWith(df, i, v) == Cardinality({k \in 1..NRows(df) : df.rows[k][i] = v})
CountsOf(df, i) == {RowsWith(df, i, df.rows[k][i]) : k \in NonNullRows(df, i)}

\* C21: for every categorical column most_frequent_count is the largest and
\* least_frequent_count the smallest value count, top_5_values has at most
\* 5 entries in order of non-increasing count whose counts sum to at most
\* the row count, and a column without a non-null value yields no most or
\* least frequent value and counts 0.
C21_CategoricalCounts ==
    "categorical_statistics" \in DOMAIN analysis_results =>
        \A l \in DOMAIN analysis_results["categorical_statistics"] :
            LET st == analysis_results["categorical_statistics"][l]
                counts == CountsOf(data, ColumnAt(data, l))
                top == st.top_5_values
            IN /\ counts # {} => /\ st.most_frequent_count \in counts
                                 /\ st.least_frequent_count \in counts
                                 /\ \A c \in counts : st.least_frequent_count <= c /\ c <= st.most_frequent_count
               /\ counts = {} => /\ st.most_frequent = Null /\ st.most_frequent_count = 0
                                 /\ st.least_frequent = Null /\ st.least_frequent_count = 0
               /\ st.most_frequent_count >= st.least_frequent_count
               /\ Len(top) <= 5
               /\ \A p \in 1..Len(top) : \A q \in p..Len(top) : top[p].count >= top[q].count
               /\ SumSeq([p \in 1..Len(top) |-> top[p].count]) <= NRows(data)

\* A categorical column with more than five distinct values of unequal
\* counts.
C21_Witness ==
    /\ "categorical_statistics" \in DOMAIN analysis_results
    /\ \E l \in DOMAIN analysis_results["categorical_statistics"] :
          LET st == analysis_results["categorical_statistics"][l]
          IN /\ st.unique_count > 5
             /\ st.most_frequent_count > st.least_frequent_count
             /\ Len(st.top_5_values) = 5
             /\ HasNullCell(data)

(***************************************************************************)
(* Claims about calls the pipeline does not make.                          *)
(***************************************************************************)
\* The stage operations that read the table.
TableStages == {"analyze_basic_info", "analyze_descriptive_statistics", "detect_outliers", "generate_visualizations", "generate_summary_report"}

\* C22: a stage operation called while no table is loaded changes neither
\* analysis_results nor any file of the output directory: analyze_basic_info
\* returns, the other operations raise.
C22_NoEffectBeforeLoad ==
    [][(data = None /\ clock' # clock /\ outcome'.op \in TableStages) =>
          /\ analysis_results' = analysis_results
          /\ disk' = disk
          /\ data' = None
          /\ (outcome'.raised = "none") <=> (outcome'.op = "analyze_basic_info")]_vars

\* The report was asked for with no table loaded: the file cannot be parsed.
C22_Witness ==
    /\ data = None
    /\ csv.kind = "malformed"
    /\ clock > 1
    /\ outcome = Raised("generate_summary_report", "AttributeError")
    /\ analysis_results = EmptyDict
    /\ disk = EmptyDisk

\* The method names detect_outliers has a rule for.
KnownMethods == {"iqr", "zscore"}

\* C23: under a method name it has no rule for, detect_outliers stores no
\* flagged rows that are those of a record computed by a known method.
C23_NoLeftoverRecord ==
    "outliers" \in DOMAIN analysis_results =>
        LET stored == analysis_results["outliers"]
        IN \A m \in DOMAIN stored \ KnownMethods : \A l \in DOMAIN stored[m] :
              stored[m][l].count > 0 =>
                  \A known \in DOMAIN stored \cap KnownMethods : \A c \in DOMAIN stored[known] :
                      stored[m][l].indices # stored[known][c].indices

====
